---- MODULE Spec2Model ----
(***************************************************************************)
(* Model of hummingbird/ml/_container.py: the batch splitter               *)
(* (BatchContainer._predict_common) and the container persistence          *)
(* protocol (save / load of the PyTorch, ONNX and TVM containers).         *)
(*                                                                         *)
(* Three specifications share the variables: SpecBatch runs one            *)
(* BatchContainer prediction call iteration by iteration, SpecPersist runs *)
(* sequences of save and load calls against a small file system, and       *)
(* SpecPredict calls the public prediction methods of one container.       *)
(***************************************************************************)
EXTENDS Integers, Sequences, FiniteSets, TLC

\* ------------------------------------------------------------------ bounds
MaxN == 8       \* largest number of input rows of a batch call
MaxB == 4       \* largest batch size of a base or remainder container

\* ------------------------------------------------------- common helpers
None == <<>>                      \* Python None for optional integers
Some(x) == <<x>>

Min(a, b) == IF a < b THEN a ELSE b
Max(a, b) == IF a > b THEN a ELSE b

\* ========================================================================
\*                              BATCH SPLITTER
\* ========================================================================

\* The five prediction methods BatchContainer forwards to _predict_common.
Methods == {"predict", "predict_proba", "transform", "decision_function", "score_samples"}

\* The models a container of the batch specification may hold: "M" is the
\* model of the base container; a remainder container holds either the same
\* model (compiled for another batch size) or a different one.
BatchModels == {"M", "Mr"}

\* The style classes a container is built from.
Styles == {"Transformer", "Regression", "Classification", "AnomalyDetection"}

\* Mutant of StyleMethods: every style defines every prediction method.
StyleMethods_all(style) == Methods

\* The public prediction methods each style class defines (a Classification
\* or AnomalyDetection container inherits predict from the Regression class).
StyleMethods(style) ==
    CASE style = "Transformer" -> {"transform"}
      [] style = "Regression" -> {"predict"}
      [] style = "Classification" -> {"predict", "predict_proba"}
      [] style = "AnomalyDetection" -> {"predict", "decision_function", "score_samples"}

VARIABLES
    bc,                     \* the BatchContainer: its fields after __init__
    pc,                     \* position of the call: idle / loop / done / failed (assertion) /
                            \* attribute_error, or direct_done / direct_error for a direct call
    func,                   \* the prediction method called
    inputs,                 \* the *inputs tuple (one array of rows)
    concatenate_outputs,    \* the keyword argument
    iterations,             \* local of _predict_common
    i,                      \* loop variable of _predict_common
    predictions,            \* local list of per-chunk outputs
    calls,                  \* invocations of the containers' compute functions, in order
    result                  \* what the call returned (meaningful when pc = "done")

batchVars == <<bc, pc, func, inputs, concatenate_outputs, iterations, i, predictions, calls, result>>

\* State of the persistence specification.
VARIABLES
    container,      \* the caller's in-memory container
    fs,             \* the file system: path -> absent / directory / archive
    threading,      \* process-wide threading configuration of the backends
    ncalls,         \* number of save / load calls made so far
    ret             \* outcome of the last save / load call

persistVars == <<container, fs, threading, ncalls, ret>>

\* State of the prediction specification: one container and the outcome of
\* the last public prediction method called on it.
VARIABLES
    self,           \* the container the prediction methods are called on
    backend_log,    \* backend primitives invoked by the last call, in order
    returned        \* the last call: method, arguments and what it returned or raised

predictVars == <<self, backend_log, returned>>
vars == <<batchVars, persistVars, predictVars>>

\* A container as the batch splitter sees it: its batch size, its model and
\* the style class that gives it its prediction methods.
BatchableContainer(size, model, style) == [batch_size |-> size, model |-> model, style |-> style]

\* getattr(container, method) succeeds
HasMethod(c, method) == method \in StyleMethods(c.style)

\* BatchContainer.__init__: the base container must have a batch size; a
\* remainder container, when given, supplies the remainder size, otherwise the
\* base container is used for the last chunk too.
BatchContainerInit(base_container, remainder_model_container) ==
    IF remainder_model_container # None
    THEN [base_container |-> base_container,
          batch_size |-> base_container.batch_size,
          remainder_model_container |-> remainder_model_container[1],
          remainder_size |-> remainder_model_container[1].batch_size,
          distinct_remainder |-> TRUE]
    ELSE [base_container |-> base_container,
          batch_size |-> base_container.batch_size,
          remainder_model_container |-> base_container,
          remainder_size |-> base_container.batch_size,
          distinct_remainder |-> FALSE]

\* What a container's public method computes for one row: the output row is
\* determined by the model, the method and the input row.
RowOutput(model, method, row) == <<model, method, row>>

\* A container's public method applied to a batch: one output row per input
\* row, in order (the *inputs tuple holds one array).
ContainerCompute(c, method, batch) ==
    [j \in 1..Len(batch[1]) |-> RowOutput(c.model, method, batch[1][j])]

\* np.concatenate over a list of arrays.
RECURSIVE Concatenate(_)
Concatenate(arrays) ==
    IF arrays = <<>> THEN <<>>
    ELSE arrays[1] \o Concatenate(Tail(arrays))

\* output_proc, the closure of _predict_common.
OutputProc(concat, preds) ==
    IF concat THEN Concatenate(preds) ELSE preds

\* Mutant of ComputeIterations: the extra iteration for the remainder is forgotten.
ComputeIterations_floor(total_size, batch_size) == Max(1, total_size \div batch_size)

\* iterations = total // B; += 1 if total % B > 0; max(1, iterations)
ComputeIterations(total_size, batch_size) ==
    Max(1, (total_size \div batch_size) + (IF total_size % batch_size > 0 THEN 1 ELSE 0))

\* Mutant of ChunkEnd: the end is not clamped to the number of rows.
ChunkEnd_unclamped(it, batch_size, total_size) == it * batch_size + batch_size

\* Mutant of ChunkStart: every chunk starts one row late.
ChunkStart_shifted(it, batch_size) == it * batch_size + 1

\* start and end of chunk it
ChunkStart(it, batch_size) == it * batch_size
ChunkEnd(it, batch_size, total_size) == Min(ChunkStart(it, batch_size) + batch_size, total_size)

\* Mutant of SliceBatch: the slice ignores its start.
SliceBatch_fromZero(ins, start, end) ==
    [k \in 1..Len(ins) |-> SubSeq(ins[k], 1, Min(end, Len(ins[k])))]

\* tuple([input[start:end, :] for input in inputs])
SliceBatch(ins, start, end) ==
    [k \in 1..Len(ins) |-> SubSeq(ins[k], start + 1, Min(end, Len(ins[k])))]

\* Mutant of IsLastIteration: off by one, no iteration is the last.
IsLastIteration_offByOne(it, iters) == it = iters

\* i == iterations - 1: the chunk goes to the remainder branch
IsLastIteration(it, iters) == it = iters - 1

\* Mutant of RemainderSizeOk: the assertion is dropped.
RemainderSizeOk_dropped(start, end, remainder_size) == TRUE

\* assert (end - start) == self._remainder_size
RemainderSizeOk(start, end, remainder_size) == (end - start) = remainder_size

\* Mutant of IsSingleBatch: the single batch shortcut is never taken.
IsSingleBatch_never(total_size, batch_size) == FALSE

\* total_size == self._batch_size: the single batch inference case
IsSingleBatch(total_size, batch_size) == total_size = batch_size

BatchInit ==
    /\ \E B \in 1..MaxB, style \in Styles :
       \E rem \in {None} \cup {Some(BatchableContainer(R, m, s)) :
                                  R \in 0..MaxB, m \in BatchModels, s \in Styles} :
          bc = BatchContainerInit(BatchableContainer(B, "M", style), rem)
    /\ pc = "idle"
    /\ func = "predict"
    /\ inputs = << <<>> >>
    /\ concatenate_outputs = TRUE
    /\ iterations = 0
    /\ i = 0
    /\ predictions = <<>>
    /\ calls = <<>>
    /\ result = <<>>

\* A public method of BatchContainer whose arguments cannot be evaluated:
\* self._base_container.<method> or self._remainder_model_container.<method>
\* raises AttributeError before _predict_common is entered.
BatchMethodMissing(method, n_rows, concat) ==
    /\ pc = "idle"
    /\ ~(HasMethod(bc.base_container, method) /\ HasMethod(bc.remainder_model_container, method))
    /\ func' = method
    /\ inputs' = << [j \in 1..n_rows |-> j] >>
    /\ concatenate_outputs' = concat
    /\ pc' = "attribute_error"
    /\ UNCHANGED <<bc, iterations, i, predictions, calls, result, persistVars, predictVars>>

\* A prediction method called on the base container itself, without the
\* splitter: the lookup of the method fails, or the container computes.
DirectCall(method, n_rows) ==
    /\ pc = "idle"
    /\ func' = method
    /\ inputs' = << [j \in 1..n_rows |-> j] >>
    /\ LET ins == << [j \in 1..n_rows |-> j] >>
       IN  IF HasMethod(bc.base_container, method)
           THEN /\ calls' = <<[container |-> "direct", iter |-> 0, rows |-> ins[1]]>>
                /\ result' = ContainerCompute(bc.base_container, method, ins)
                /\ pc' = "direct_done"
           ELSE /\ pc' = "direct_error"
                /\ UNCHANGED <<calls, result>>
    /\ UNCHANGED <<bc, concatenate_outputs, iterations, i, predictions, persistVars, predictVars>>

\* A public method of BatchContainer whose two bound methods exist: entry of
\* _predict_common up to the loop. The single-batch case returns at once;
\* otherwise the loop is set up.
PredictCommonEnter(method, n_rows, concat) ==
    /\ pc = "idle"
    /\ HasMethod(bc.base_container, method)
    /\ HasMethod(bc.remainder_model_container, method)
    /\ func' = method
    /\ inputs' = << [j \in 1..n_rows |-> j] >>
    /\ concatenate_outputs' = concat
    /\ i' = 0
    /\ LET ins == << [j \in 1..n_rows |-> j] >>
           total_size == Len(ins[1])
       IN  IF IsSingleBatch(total_size, bc.batch_size)
           THEN LET out == ContainerCompute(bc.base_container, method, ins)
                IN  /\ calls' = <<[container |-> "base", iter |-> 0, rows |-> ins[1]]>>
                    /\ predictions' = <<out>>
                    /\ result' = OutputProc(concat, <<out>>)
                    /\ pc' = "done"
                    /\ iterations' = iterations
           ELSE /\ iterations' = ComputeIterations(total_size, bc.batch_size)
                /\ predictions' = <<>>
                /\ calls' = <<>>
                /\ result' = <<>>
                /\ pc' = "loop"
    /\ UNCHANGED <<bc, persistVars, predictVars>>

\* One iteration of the for loop.
PredictCommonIterate ==
    /\ pc = "loop"
    /\ i < iterations
    /\ LET total_size == Len(inputs[1])
           start == ChunkStart(i, bc.batch_size)
           end == ChunkEnd(i, bc.batch_size, total_size)
           batch == SliceBatch(inputs, start, end)
       IN  IF IsLastIteration(i, iterations)
           THEN IF RemainderSizeOk(start, end, bc.remainder_size)
                THEN /\ predictions' = Append(predictions,
                                              ContainerCompute(bc.remainder_model_container, func, batch))
                     /\ calls' = Append(calls, [container |-> "remainder", iter |-> i, rows |-> batch[1]])
                     /\ i' = i + 1
                     /\ pc' = "loop"
                ELSE \* AssertionError propagates out of the call
                     /\ pc' = "failed"
                     /\ UNCHANGED <<predictions, calls, i>>
           ELSE /\ predictions' = Append(predictions,
                                         ContainerCompute(bc.base_container, func, batch))
                /\ calls' = Append(calls, [container |-> "base", iter |-> i, rows |-> batch[1]])
                /\ i' = i + 1
                /\ pc' = "loop"
    /\ UNCHANGED <<bc, func, inputs, concatenate_outputs, iterations, result>>
    /\ UNCHANGED <<persistVars, predictVars>>

\* return output_proc(predictions)
PredictCommonReturn ==
    /\ pc = "loop"
    /\ i = iterations
    /\ result' = OutputProc(concatenate_outputs, predictions)
    /\ pc' = "done"
    /\ UNCHANGED <<bc, func, inputs, concatenate_outputs, iterations, i, predictions, calls>>
    /\ UNCHANGED <<persistVars, predictVars>>

BatchNext ==
    \/ \E method \in Methods, N \in 0..MaxN, concat \in BOOLEAN : BatchMethodMissing(method, N, concat)
    \/ \E method \in Methods, N \in 0..MaxN : DirectCall(method, N)
    \/ \E method \in Methods, N \in 0..MaxN, concat \in BOOLEAN : PredictCommonEnter(method, N, concat)
    \/ PredictCommonIterate
    \/ PredictCommonReturn

\* ========================================================================
\*                         PERSISTENCE: save / load
\* ========================================================================

\* Paths are sequences of characters, so that endswith("zip"), + ".zip" and
\* zip_location[-4] are computed as Python computes them.
ZipSuffix == <<".", "z", "i", "p">>
SaveLocations == {<<"m">>, <<"n">>}
ArchiveOf(location) == location \o ZipSuffix              \* shutil.make_archive(location, "zip", ...)
LoadLocations == SaveLocations \cup {ArchiveOf(l) : l \in SaveLocations}
Cwd == <<".">>
Paths == LoadLocations \cup {Cwd}

\* The files of a bundle directory, named by the expression the code joins to
\* the location (the values of the constants.* names are not part of this
\* file; distinct names are taken to be distinct files).
FileNames == {"SAVE_LOAD_MODEL_TYPE_PATH", "SAVE_LOAD_TORCH_JIT_PATH", "container.pkl",
              "SAVE_LOAD_ONNX_PATH", "SAVE_LOAD_CONTAINER_PATH",
              "SAVE_LOAD_TVM_LIB_PATH", "SAVE_LOAD_TVM_GRAPH_PATH", "SAVE_LOAD_TVM_PARAMS_PATH"}

NoFile == <<>>
EmptyFiles == [f \in FileNames |-> NoFile]
Absent == [kind |-> "absent", files |-> EmptyFiles]
Directory(files) == [kind |-> "dir", files |-> files]
Archive(files) == [kind |-> "file", files |-> files]

\* Model handles. id names the weights: one name for a torch / onnx model, the
\* <<graph, lib, params>> triple for a TVM graph runtime module.
NoModel == [kind |-> "None", id |-> <<>>, ctx |-> ""]
TorchScriptModel == [kind |-> "torch.jit", id |-> <<"w">>, ctx |-> ""]
PyTorchBackendModel == [kind |-> "PyTorchBackendModel", id |-> <<"w">>, ctx |-> ""]
OtherModel == [kind |-> "other", id |-> <<"w">>, ctx |-> ""]
OnnxModel == [kind |-> "onnx", id |-> <<"w">>, ctx |-> ""]
\* graph_runtime.create(graph, lib, ctx) followed by set_input(**params)
GraphRuntimeCreate(graph, lib, params, ctx) == [kind |-> "tvm", id |-> <<graph, lib, params>>, ctx |-> ctx]

\* TVM device contexts; device_type is 1 for the cpu.
TvmDevices == {"tvm.cpu()", "tvm.gpu()"}
DeviceType(ctx) == IF ctx = "tvm.cpu()" THEN 1 ELSE 2

\* ort.InferenceSession(model.SerializeToString(), sess_options)
NoSession == <<>>
InferenceSession(model, n_threads) ==
    << [model |-> model.id,
        intra_op_num_threads |-> n_threads,
        inter_op_num_threads |-> IF n_threads # None THEN Some(1) ELSE None] >>

\* The extra_config dict: every key of the vocabulary the persistence code
\* touches, "ABSENT" when the key is not in the dict, "None" when it maps to None.
ExtraConfig(test_input, lib, graph, params, context) ==
    [TEST_INPUT |-> test_input, OFFSET |-> "offset", TVM_LIB |-> lib, TVM_GRAPH |-> graph,
     TVM_PARAMS |-> params, TVM_CONTEXT |-> context]

NThreadsChoices == {None, Some(2)}
TestInputChoices == {"ABSENT", "sample"}

\* SklearnContainer.__init__ as reached through PyTorch containers.
PyTorchContainer(model, n_threads, test_input) ==
    [cls |-> "PyTorch", model |-> model, n_threads |-> n_threads, batch_size |-> Some(2),
     extra_config |-> ExtraConfig(test_input, "ABSENT", "ABSENT", "ABSENT", "ABSENT"),
     session |-> NoSession, ctx |-> ""]

\* ONNXSklearnContainer.__init__: builds the inference session.
ONNXContainer(model, n_threads, test_input) ==
    [cls |-> "ONNX", model |-> model, n_threads |-> n_threads, batch_size |-> Some(2),
     extra_config |-> ExtraConfig(test_input, "ABSENT", "ABSENT", "ABSENT", "ABSENT"),
     session |-> InferenceSession(model, n_threads), ctx |-> ""]

\* TVMSklearnContainer.__init__: self._ctx = extra_config[TVM_CONTEXT].
TVMContainer(device, n_threads, test_input) ==
    [cls |-> "TVM", model |-> GraphRuntimeCreate("graph", "lib", "params", device),
     n_threads |-> n_threads, batch_size |-> Some(2),
     extra_config |-> ExtraConfig(test_input, "lib", "graph", "params", device),
     session |-> NoSession, ctx |-> device]

\* str(n) as written to os.environ["TVM_NUM_THREADS"]
Str(n_threads) == IF n_threads = None THEN "None" ELSE "2"


MaxCalls == 3   \* longest sequence of save / load calls explored

\* ------------------------------------------------------ file system calls
PathExists(fsys, path) == fsys[path].kind # "absent"                     \* os.path.exists
MakeDirs(fsys, location) == [fsys EXCEPT ![location] = Directory(EmptyFiles)]   \* os.makedirs
WriteFile(fsys, location, name, content) ==                               \* open(join(location, name), "w")
    [fsys EXCEPT ![location].files[name] = content]
MakeArchive(fsys, location) ==                                            \* shutil.make_archive
    [fsys EXCEPT ![ArchiveOf(location)] = Archive(fsys[location].files)]
RmTree(fsys, location) == [fsys EXCEPT ![location] = Absent]              \* shutil.rmtree

\* File contents, tagged by format.
TextFile(text) == <<"text", text>>
PartialFile == <<"partial">>                    \* a file opened for writing whose write failed
Dill(obj) == <<"dill", obj>>                    \* dill.dump(self, file)
TorchScriptFile(model) == <<"torchscript", model>>   \* self.model.save(path)
OnnxFile(model) == <<"onnx", model>>            \* onnx.save(self.model, path)
TvmLibFile(lib) == <<"lib", lib>>               \* export_library(path_lib)
TvmParamsFile(params) == <<"params", params>>   \* relay.save_param_dict(params)

\* The outcome of a call: the container and file system it leaves and whether
\* it returned or raised.
Outcome(c, fsys, status, err) == [container |-> c, fs |-> fsys, status |-> status, err |-> err]

\* Mutant of ModelIsNone: the assertion on the model handle is dropped.
ModelIsNone_dropped(c) == FALSE

\* assert self.model is not None
ModelIsNone(c) == c.model.kind = "None"

\* if constants.TEST_INPUT in self._extra_config: self._extra_config[TEST_INPUT] = None
NullTestInput(c) ==
    IF c.extra_config.TEST_INPUT # "ABSENT"
    THEN [c EXCEPT !.extra_config.TEST_INPUT = "None"]
    ELSE c

\* PyTorchSklearnContainer.save. fault names the external call that fails, if
\* any: "dump" (dill.dump raises) or "archive" (shutil.make_archive raises).
PyTorchSave(c, fsys, location, fault) ==
    IF ModelIsNone(c) THEN Outcome(c, fsys, "raise", "AssertionError: None model")
    ELSE LET c1 == NullTestInput(c) IN
    IF PathExists(fsys, location) THEN Outcome(c1, fsys, "raise", "AssertionError: exists")
    ELSE LET fs1 == MakeDirs(fsys, location) IN
    IF c1.model.kind = "torch.jit" THEN
        LET fs2 == WriteFile(fs1, location, "SAVE_LOAD_MODEL_TYPE_PATH", TextFile("torch.jit"))
            fs3 == WriteFile(fs2, location, "SAVE_LOAD_TORCH_JIT_PATH", TorchScriptFile(c1.model))
            model == c1.model
            c2 == [c1 EXCEPT !.model = NoModel]
        IN  IF fault = "dump"
            THEN Outcome(c2, WriteFile(fs3, location, "container.pkl", PartialFile), "raise", "dump failed")
            ELSE LET fs4 == WriteFile(fs3, location, "container.pkl", Dill(c2))
                     c3 == [c2 EXCEPT !.model = model]
                 IN  IF fault = "archive"
                     THEN Outcome(c3, fs4, "raise", "archive failed")
                     ELSE Outcome(c3, RmTree(MakeArchive(fs4, location), location), "ok", "")
    ELSE IF c1.model.kind = "PyTorchBackendModel" THEN
        LET fs2 == WriteFile(fs1, location, "SAVE_LOAD_MODEL_TYPE_PATH", TextFile("torch"))
        IN  IF fault = "dump"
            THEN Outcome(c1, WriteFile(fs2, location, "SAVE_LOAD_TORCH_JIT_PATH", PartialFile),
                         "raise", "dump failed")
            ELSE LET fs3 == WriteFile(fs2, location, "SAVE_LOAD_TORCH_JIT_PATH", Dill(c1))
                 IN  IF fault = "archive"
                     THEN Outcome(c1, fs3, "raise", "archive failed")
                     ELSE Outcome(c1, RmTree(MakeArchive(fs3, location), location), "ok", "")
    ELSE Outcome(c1, fs1, "raise", "RuntimeError: model type not recognized")

\* ONNXSklearnContainer.save
ONNXSave(c, fsys, location, fault) ==
    IF ModelIsNone(c) THEN Outcome(c, fsys, "raise", "AssertionError: None model")
    ELSE LET c1 == NullTestInput(c) IN
    IF PathExists(fsys, location) THEN Outcome(c1, fsys, "raise", "AssertionError: exists")
    ELSE
        LET fs1 == MakeDirs(fsys, location)
            fs2 == WriteFile(fs1, location, "SAVE_LOAD_MODEL_TYPE_PATH", TextFile("onnx"))
            fs3 == WriteFile(fs2, location, "SAVE_LOAD_ONNX_PATH", OnnxFile(c1.model))
            model == c1.model
            session == c1.session
            c2 == [c1 EXCEPT !.model = NoModel, !.session = NoSession]
        IN  IF fault = "dump"
            THEN Outcome(c2, WriteFile(fs3, location, "SAVE_LOAD_CONTAINER_PATH", PartialFile),
                         "raise", "dump failed")
            ELSE LET fs4 == WriteFile(fs3, location, "SAVE_LOAD_CONTAINER_PATH", Dill(c2))
                 IN  IF fault = "archive"
                     THEN Outcome(c2, fs4, "raise", "archive failed")
                     ELSE Outcome([c2 EXCEPT !.model = model, !.session = session],
                                  RmTree(MakeArchive(fs4, location), location), "ok", "")

\* TVMSklearnContainer.save
TVMSave(c, fsys, location, fault) ==
    IF ModelIsNone(c) THEN Outcome(c, fsys, "raise", "AssertionError: None model")
    ELSE IF PathExists(fsys, location) THEN Outcome(c, fsys, "raise", "AssertionError: exists")
    ELSE
        LET fs1 == MakeDirs(fsys, location)
            fs2 == WriteFile(fs1, location, "SAVE_LOAD_MODEL_TYPE_PATH", TextFile("tvm"))
        IN  IF c.extra_config.TVM_LIB = "None"
            THEN Outcome(c, fs2, "raise", "AttributeError: export_library")
            ELSE
        LET fs3 == WriteFile(fs2, location, "SAVE_LOAD_TVM_LIB_PATH", TvmLibFile(c.extra_config.TVM_LIB))
            fs4 == WriteFile(fs3, location, "SAVE_LOAD_TVM_GRAPH_PATH", TextFile(c.extra_config.TVM_GRAPH))
            fs5 == WriteFile(fs4, location, "SAVE_LOAD_TVM_PARAMS_PATH", TvmParamsFile(c.extra_config.TVM_PARAMS))
            c1 == NullTestInput(c)
            lib == c1.extra_config.TVM_LIB
            graph == c1.extra_config.TVM_GRAPH
            params == c1.extra_config.TVM_PARAMS
            ctx == c1.extra_config.TVM_CONTEXT
            model == c1.model
            c2 == [c1 EXCEPT !.extra_config.TVM_LIB = "None", !.extra_config.TVM_GRAPH = "None",
                             !.extra_config.TVM_PARAMS = "None", !.extra_config.TVM_CONTEXT = "None",
                             !.ctx = IF DeviceType(c1.ctx) = 1 THEN "cpu" ELSE "cuda",
                             !.model = NoModel]
        IN  IF fault = "dump"
            THEN Outcome(c2, WriteFile(fs5, location, "SAVE_LOAD_CONTAINER_PATH", PartialFile),
                         "raise", "dump failed")
            ELSE LET fs6 == WriteFile(fs5, location, "SAVE_LOAD_CONTAINER_PATH", Dill(c2))
                 IN  IF fault = "archive"
                     THEN Outcome(c2, fs6, "raise", "archive failed")
                     ELSE Outcome([c2 EXCEPT !.extra_config.TVM_LIB = lib, !.extra_config.TVM_GRAPH = graph,
                                             !.extra_config.TVM_PARAMS = params,
                                             !.extra_config.TVM_CONTEXT = ctx,
                                             !.ctx = ctx, !.model = model],
                                  RmTree(MakeArchive(fs6, location), location), "ok", "")

\* ------------------------------------------------------------------ load
\* location.endswith("zip")
EndsWithZip(location) ==
    Len(location) >= 3 /\ SubSeq(location, Len(location) - 2, Len(location)) = <<"z", "i", "p">>

\* zip_location[-4]: the single character four places from the end
FourthFromEnd(zip_location) == << zip_location[Len(zip_location) - 3] >>

\* The directory load reads from when unpacking: location itself when it does
\* not end with "zip", otherwise location = zip_location[-4].
UnpackTarget(location) ==
    IF ~EndsWithZip(location) THEN location ELSE FourthFromEnd(location)

\* The archive load unpacks.
ZipLocation(location) ==
    IF ~EndsWithZip(location) THEN ArchiveOf(location) ELSE location

\* shutil.unpack_archive(zip_location, location, format="zip"): the archive's
\* files are written into the directory, which is created when missing; files
\* already there under other names stay.
UnpackArchive(fsys, zip_location, location) ==
    [fsys EXCEPT ![location] =
        Directory([f \in FileNames |->
            IF Len(fsys[zip_location].files[f]) > 0 THEN fsys[zip_location].files[f]
            ELSE fsys[location].files[f]])]

\* open(os.path.join(location, name)) succeeds
FileReadable(fsys, location, name) ==
    /\ location \in DOMAIN fsys
    /\ fsys[location].kind = "dir"
    /\ Len(fsys[location].files[name]) > 0

ReadFile(fsys, location, name) == fsys[location].files[name]

\* The outcome of a load: the container returned (None when it raised), the
\* file system and threading configuration it leaves.
LoadOutcome(value, fsys, thr, status, err) ==
    [value |-> value, fs |-> fsys, threading |-> thr, status |-> status, err |-> err]

\* The first block of every load: unzip when the flag is set.
\* Returns the directory to read from and the file system after unpacking.
Unzip(fsys, location, flag) ==
    IF ~flag THEN [ok |-> TRUE, location |-> location, fs |-> fsys, err |-> ""]
    ELSE IF EndsWithZip(location) /\ Len(location) < 4
    THEN [ok |-> FALSE, location |-> location, fs |-> fsys, err |-> "IndexError"]
    ELSE LET zip_location == ZipLocation(location)
             target == UnpackTarget(location)
         IN  IF ~(zip_location \in DOMAIN fsys /\ fsys[zip_location].kind = "file")
             THEN [ok |-> FALSE, location |-> target, fs |-> fsys, err |-> "ReadError: no archive"]
             ELSE [ok |-> TRUE, location |-> target,
                   fs |-> UnpackArchive(fsys, zip_location, target), err |-> ""]

\* dill.load of a file: the pickled object, or nothing when the file is not a pickle
IsDill(content) == Len(content) = 2 /\ content[1] = "dill"

\* torch.set_num_interop_threads(1) unless already 1; torch.set_num_threads(n)
TorchApplyThreads(thr, n_threads) ==
    IF n_threads # None
    THEN [thr EXCEPT !.torch_interop_threads = Some(1), !.torch_num_threads = n_threads]
    ELSE thr

\* model_type is one the PyTorch loader dispatches on
PyTorchTagKnown(model_type) == model_type \in {"torch.jit", "torch"}

\* PyTorchSklearnContainer.load
PyTorchLoad(fsys, thr, loc, flag) ==
    LET u == Unzip(fsys, loc, flag) IN
    IF ~u.ok THEN LoadOutcome(None, u.fs, thr, "raise", u.err)
    ELSE IF ~FileReadable(u.fs, u.location, "SAVE_LOAD_MODEL_TYPE_PATH")
    THEN LoadOutcome(None, u.fs, thr, "raise", "IOError: model type file")
    ELSE LET model_type == ReadFile(u.fs, u.location, "SAVE_LOAD_MODEL_TYPE_PATH")[2] IN
    IF ~PyTorchTagKnown(model_type)
    THEN LoadOutcome(None, u.fs, thr, "raise", "model type mismatch")
    ELSE IF ~FileReadable(u.fs, u.location, "SAVE_LOAD_TORCH_JIT_PATH")
    THEN LoadOutcome(None, u.fs, thr, "raise", "IOError: model file")
    ELSE LET payload == ReadFile(u.fs, u.location, "SAVE_LOAD_TORCH_JIT_PATH") IN
    IF model_type = "torch.jit" THEN
        IF payload[1] # "torchscript"
        THEN LoadOutcome(None, u.fs, thr, "raise", "RuntimeError: not a torchscript archive")
        ELSE IF ~FileReadable(u.fs, u.location, "container.pkl")
        THEN LoadOutcome(None, u.fs, thr, "raise", "IOError: container file")
        ELSE LET pkl == ReadFile(u.fs, u.location, "container.pkl") IN
        IF ~IsDill(pkl) THEN LoadOutcome(None, u.fs, thr, "raise", "UnpicklingError")
        ELSE LET c == [pkl[2] EXCEPT !.model = payload[2]]
             IN  LoadOutcome(Some(c), u.fs, TorchApplyThreads(thr, c.n_threads), "ok", "")
    ELSE
        IF ~IsDill(payload) THEN LoadOutcome(None, u.fs, thr, "raise", "UnpicklingError")
        ELSE LET c == payload[2]
             IN  LoadOutcome(Some(c), u.fs, TorchApplyThreads(thr, c.n_threads), "ok", "")

\* Mutant of TagCheckFails: the loaders never compare the tag.
TagCheckFails_ignored(fsys, location, flag, expected) == FALSE

\* The type check the ONNX and TVM loaders make inside the unzip block: the
\* tag is read and compared only when the flag is set.
TagCheckFails(fsys, location, flag, expected) ==
    /\ flag
    /\ ReadFile(fsys, location, "SAVE_LOAD_MODEL_TYPE_PATH")[2] # expected

\* ONNXSklearnContainer.load
ONNXLoad(fsys, thr, loc, flag) ==
    LET u == Unzip(fsys, loc, flag) IN
    IF ~u.ok THEN LoadOutcome(None, u.fs, thr, "raise", u.err)
    ELSE IF flag /\ ~FileReadable(u.fs, u.location, "SAVE_LOAD_MODEL_TYPE_PATH")
    THEN LoadOutcome(None, u.fs, thr, "raise", "IOError: model type file")
    ELSE IF TagCheckFails(u.fs, u.location, flag, "onnx")
    THEN LoadOutcome(None, u.fs, thr, "raise", "model type mismatch")
    ELSE IF ~FileReadable(u.fs, u.location, "SAVE_LOAD_ONNX_PATH")
    THEN LoadOutcome(None, u.fs, thr, "raise", "IOError: model file")
    ELSE IF ~FileReadable(u.fs, u.location, "SAVE_LOAD_CONTAINER_PATH")
    THEN LoadOutcome(None, u.fs, thr, "raise", "IOError: container file")
    ELSE LET model == ReadFile(u.fs, u.location, "SAVE_LOAD_ONNX_PATH")[2]
             pkl == ReadFile(u.fs, u.location, "SAVE_LOAD_CONTAINER_PATH")
         IN  IF ~IsDill(pkl) THEN LoadOutcome(None, u.fs, thr, "raise", "UnpicklingError")
             ELSE LET c == [pkl[2] EXCEPT !.model = model,
                                          !.session = InferenceSession(model, pkl[2].n_threads)]
                  IN  LoadOutcome(Some(c), u.fs, thr, "ok", "")

\* ctx = tvm.cpu() if container._ctx == "cpu" else tvm.gpu
\* (tvm.gpu is the function, not a device context)
TvmLoadContext(saved_ctx) == IF saved_ctx = "cpu" THEN "tvm.cpu()" ELSE "tvm.gpu"

\* TVMSklearnContainer.load. runtime_accepts: whether graph_runtime.create
\* goes through when handed something that is not a device context.
TVMLoad(fsys, thr, loc, flag, runtime_accepts) ==
    LET u == Unzip(fsys, loc, flag) IN
    IF ~u.ok THEN LoadOutcome(None, u.fs, thr, "raise", u.err)
    ELSE IF flag /\ ~FileReadable(u.fs, u.location, "SAVE_LOAD_MODEL_TYPE_PATH")
    THEN LoadOutcome(None, u.fs, thr, "raise", "IOError: model type file")
    ELSE IF TagCheckFails(u.fs, u.location, flag, "tvm")
    THEN LoadOutcome(None, u.fs, thr, "raise", "model type mismatch")
    ELSE IF \E f \in {"SAVE_LOAD_TVM_LIB_PATH", "SAVE_LOAD_TVM_GRAPH_PATH", "SAVE_LOAD_TVM_PARAMS_PATH"} :
               ~FileReadable(u.fs, u.location, f)
    THEN LoadOutcome(None, u.fs, thr, "raise", "IOError: model file")
    ELSE IF ~FileReadable(u.fs, u.location, "SAVE_LOAD_CONTAINER_PATH")
    THEN LoadOutcome(None, u.fs, thr, "raise", "IOError: container file")
    ELSE LET graph == ReadFile(u.fs, u.location, "SAVE_LOAD_TVM_GRAPH_PATH")[2]
             lib == ReadFile(u.fs, u.location, "SAVE_LOAD_TVM_LIB_PATH")[2]
             params == ReadFile(u.fs, u.location, "SAVE_LOAD_TVM_PARAMS_PATH")[2]
             pkl == ReadFile(u.fs, u.location, "SAVE_LOAD_CONTAINER_PATH")
         IN  IF ~IsDill(pkl) THEN LoadOutcome(None, u.fs, thr, "raise", "UnpicklingError")
             ELSE LET ctx == TvmLoadContext(pkl[2].ctx) IN
                  IF ctx \notin TvmDevices /\ ~runtime_accepts
                  THEN LoadOutcome(None, u.fs, thr, "raise", "ValueError: ctx is not a device context")
                  ELSE LET c == [pkl[2] EXCEPT !.model = GraphRuntimeCreate(graph, lib, params, ctx),
                                               !.extra_config.TVM_GRAPH = graph,
                                               !.extra_config.TVM_LIB = lib,
                                               !.extra_config.TVM_PARAMS = params,
                                               !.extra_config.TVM_CONTEXT = ctx,
                                               !.ctx = ctx]
                       IN  LoadOutcome(Some(c), u.fs,
                                       [thr EXCEPT !.TVM_NUM_THREADS = Str(c.n_threads)], "ok", "")

\* ------------------------------------------------------------- the calls
NoCall == [op |-> "none", cls |-> "", loc |-> <<>>, flag |-> FALSE,
           status |-> "", err |-> "", value |-> None]

SaveReturn(cls, location, o) ==
    [op |-> "save", cls |-> cls, loc |-> location, flag |-> FALSE,
     status |-> o.status, err |-> o.err, value |-> None]

LoadReturn(cls, location, flag, o) ==
    [op |-> "load", cls |-> cls, loc |-> location, flag |-> flag,
     status |-> o.status, err |-> o.err, value |-> o.value]

\* The containers a caller may hold after construction.
InitialContainers ==
    {PyTorchContainer(m, n, t) :
        m \in {NoModel, TorchScriptModel, PyTorchBackendModel, OtherModel},
        n \in NThreadsChoices, t \in TestInputChoices}
    \cup {ONNXContainer(OnnxModel, n, t) : n \in NThreadsChoices, t \in TestInputChoices}
    \cup {TVMContainer(d, n, t) : d \in TvmDevices, n \in NThreadsChoices, t \in TestInputChoices}

\* Threading configuration after constructing c: only the TVM constructor
\* writes one (os.environ["TVM_NUM_THREADS"] = str(self._n_threads)).
InitialThreading(c) ==
    [torch_num_threads |-> None, torch_interop_threads |-> None,
     TVM_NUM_THREADS |-> IF c.cls = "TVM" THEN Str(c.n_threads) ELSE "unset"]

InitialFs == [p \in Paths |-> IF p = Cwd THEN Directory(EmptyFiles) ELSE Absent]

Faults == {"none", "dump", "archive"}

BatchIdle ==
    /\ bc = BatchContainerInit(BatchableContainer(1, "M", "Regression"), None)
    /\ pc = "off"
    /\ func = "predict"
    /\ inputs = << <<>> >>
    /\ concatenate_outputs = TRUE
    /\ iterations = 0
    /\ i = 0
    /\ predictions = <<>>
    /\ calls = <<>>
    /\ result = <<>>

PersistIdle ==
    /\ container = PyTorchContainer(NoModel, None, "ABSENT")
    /\ fs = InitialFs
    /\ threading = InitialThreading(container)
    /\ ncalls = 0
    /\ ret = NoCall

PersistInit ==
    /\ container \in InitialContainers
    /\ fs = InitialFs
    /\ threading = InitialThreading(container)
    /\ ncalls = 0
    /\ ret = NoCall

Save(cls, location, o) ==
    /\ ncalls < MaxCalls
    /\ container.cls = cls
    /\ container' = o.container
    /\ fs' = o.fs
    /\ ret' = SaveReturn(cls, location, o)
    /\ ncalls' = ncalls + 1
    /\ UNCHANGED <<threading, batchVars, predictVars>>

SavePyTorch(location, fault) == Save("PyTorch", location, PyTorchSave(container, fs, location, fault))
SaveONNX(location, fault) == Save("ONNX", location, ONNXSave(container, fs, location, fault))
SaveTVM(location, fault) == Save("TVM", location, TVMSave(container, fs, location, fault))

Load(cls, location, flag, o) ==
    /\ ncalls < MaxCalls
    /\ fs' = o.fs
    /\ threading' = o.threading
    /\ ret' = LoadReturn(cls, location, flag, o)
    /\ ncalls' = ncalls + 1
    /\ UNCHANGED <<container, batchVars, predictVars>>

LoadPyTorch(location, flag) == Load("PyTorch", location, flag, PyTorchLoad(fs, threading, location, flag))
LoadONNX(location, flag) == Load("ONNX", location, flag, ONNXLoad(fs, threading, location, flag))
LoadTVM(location, flag, runtime_accepts) ==
    Load("TVM", location, flag, TVMLoad(fs, threading, location, flag, runtime_accepts))

PersistNext ==
    \/ \E location \in SaveLocations, fault \in Faults : SavePyTorch(location, fault)
    \/ \E location \in SaveLocations, fault \in Faults : SaveONNX(location, fault)
    \/ \E location \in SaveLocations, fault \in Faults : SaveTVM(location, fault)
    \/ \E location \in LoadLocations, flag \in BOOLEAN : LoadPyTorch(location, flag)
    \/ \E location \in LoadLocations, flag \in BOOLEAN : LoadONNX(location, flag)
    \/ \E location \in LoadLocations, flag \in BOOLEAN, acc \in BOOLEAN : LoadTVM(location, flag, acc)

\* ========================================================================
\*               PREDICTION: the public methods of a container
\* ========================================================================
MaxCols == 3    \* largest number of columns / positional arrays of a call
MaxRows == 2    \* largest row count of an input array

Backends == {"PyTorch", "TorchScript", "ONNX", "TVM"}
\* A container of one backend and one style after __init__. n_inputs is the
\* number of inputs of the backend model (len(self._input_names) for ONNX
\* and TVM); threshold is None when IFOREST_THRESHOLD is not in extra_config.
SklearnContainer(backend, style, batch_size, n_inputs, threshold, offset) ==
    [backend |-> backend, style |-> style, batch_size |-> batch_size,
     n_inputs |-> n_inputs,
     extra_config |-> [IFOREST_THRESHOLD |-> threshold, OFFSET |-> offset]]

\* ------------------------------------------------------------- the data
\* The value stored in column j, row r of the data set.
Cell(j, r) == 3 * j + r

\* A pandas DataFrame of k columns and n rows.
DataFrame(k, n) ==
    [type |-> "DataFrame", dtype |-> "float64",
     cols |-> [j \in 1..k |-> [r \in 1..n |-> Cell(j, r)]]]

\* Column j of the data set as an (n, 1) float64 ndarray.
ColumnArray(j, n) ==
    [type |-> "ndarray", dtype |-> "float64", cols |-> << [r \in 1..n |-> Cell(j, r)] >>]

\* inp.shape[0]
Shape0(a) == Len(a.cols[1])

\* The *inputs tuples of a call: one DataFrame, or k positional column arrays
\* (whose row counts the caller is free to choose).
TabularInputs == { << DataFrame(k, n) >> : k \in 1..MaxCols, n \in 1..MaxRows }
ArrayInputs ==
    UNION { { [j \in 1..k |-> ColumnArray(j, ns[j])] : ns \in [1..k -> 1..MaxRows] } : k \in 1..MaxCols }
InputArgs == TabularInputs \cup ArrayInputs

\* What a prediction method hands back: a value, or the exception it raised,
\* together with the backend primitives it invoked.
Ok(value, log) == [status |-> "ok", err |-> "", value |-> value, log |-> log]
Raise(err, log) == [status |-> "error", err |-> err, value |-> <<>>, log |-> log]

\* _run: a DataFrame is split into its columns, each an (n, 1) ndarray;
\* the function then receives the (possibly split) inputs.
RunInputs(ins) ==
    IF ins[1].type = "DataFrame"
    THEN [j \in 1..Len(ins[1].cols) |->
             [type |-> "ndarray", dtype |-> ins[1].dtype, cols |-> << ins[1].cols[j] >>]]
    ELSE ins

\* ------------------------------------------------------ backend primitives
RECURSIVE SumSeq(_)
SumSeq(s) == IF s = <<>> THEN 0 ELSE s[1] + SumSeq(Tail(s))

\* Output slot o of the backend model on the given tensors, one score per
\* row; the j-th tensor is weighted by j, so that the order of the tensors
\* shows in the output.
ModelOutput(o, tensors) ==
    [r \in 1..Shape0(tensors[1]) |->
        100 * o + SumSeq([j \in 1..Len(tensors) |->
                             j * SumSeq([c \in 1..Len(tensors[j].cols) |-> tensors[j].cols[c][r]])])]

\* The backend model runs when it is given as many tensors as it has
\* inputs, all of the same row count.
BackendAccepts(c, tensors) ==
    /\ Len(tensors) = c.n_inputs
    /\ \A j \in 1..Len(tensors) : Shape0(tensors[j]) = Shape0(tensors[1])

\* The output slot each private method reads.
OutputIndex(private) ==
    IF private \in {"_predict_proba", "_decision_function"} THEN 1 ELSE 0

\* self.model.forward(*inputs)[o] of the PyTorch containers
ModelForward(c, tensors, o) ==
    LET invoked == << [prim |-> "forward", args |-> tensors, index |-> Some(o)] >>
    IN  IF BackendAccepts(c, tensors)
        THEN Ok(ModelOutput(o, tensors), invoked)
        ELSE Raise("BackendError", invoked)

\* inputs[0] of _get_named_inputs when inputs[0] is an array: its rows.
ArrayElements(a) ==
    [r \in 1..Shape0(a) |->
        [type |-> "ndarray", dtype |-> a.dtype,
         cols |-> << [col \in 1..Len(a.cols) |-> a.cols[col][r]] >>]]

\* ONNXSklearnContainer._get_named_inputs
GetNamedInputs(c, ins) ==
    LET xs == IF Len(ins) < c.n_inputs THEN ArrayElements(ins[1]) ELSE ins
    IN  IF Len(xs) # c.n_inputs
        THEN Raise("AssertionError", <<>>)
        ELSE Ok([j \in 1..Len(xs) |-> [xs[j] EXCEPT !.type = "ndarray"]], <<>>)

\* self._session.run([output_names[o]], named_inputs) of the ONNX containers
SessionRun(c, ins, o) ==
    LET named == GetNamedInputs(c, ins)
    IN  IF named.status # "ok" THEN named
        ELSE LET invoked == << [prim |-> "session.run", args |-> named.value, index |-> Some(o)] >>
             IN  IF BackendAccepts(c, named.value)
                 THEN Ok(ModelOutput(o, named.value), invoked)
                 ELSE Raise("BackendError", invoked)

\* Mutant of TvmBatchSizeOk: the row count is not checked.
TvmBatchSizeOk_dropped(shape0, batch_size) == TRUE

\* assert inp.shape[0] == self._batch_size
TvmBatchSizeOk(shape0, batch_size) == Some(shape0) = batch_size

\* TVMSklearnContainer._to_tvm_tensor: the inputs are visited in order; each
\* is first checked against the batch size and then stored under its input
\* name, which raises IndexError when there are more inputs than names.
ToTvmTensor(c, ins) ==
    LET stops == {k \in 1..Len(ins) :
                     ~TvmBatchSizeOk(Shape0(ins[k]), c.batch_size) \/ k > c.n_inputs}
    IN  IF stops = {} THEN Ok(ins, <<>>)
        ELSE LET k == CHOOSE s \in stops : \A t \in stops : s <= t
             IN  IF ~TvmBatchSizeOk(Shape0(ins[k]), c.batch_size)
                 THEN Raise("AssertionError", <<>>)
                 ELSE Raise("IndexError", <<>>)

\* TVMSklearnContainer._predict_common: model.run on the converted inputs,
\* then get_output(output_index).
TVMPredictCommon(c, ins, o) ==
    LET t == ToTvmTensor(c, ins)
    IN  IF t.status # "ok" THEN t
        ELSE Ok(ModelOutput(o, t.value),
                << [prim |-> "model.run", args |-> t.value, index |-> None],
                   [prim |-> "get_output", args |-> <<>>, index |-> Some(o)] >>)

\* The private method (_transform, _predict, _predict_proba,
\* _decision_function) of the container's backend class.
BackendCompute(c, private, ins) ==
    CASE c.backend \in {"PyTorch", "TorchScript"} -> ModelForward(c, ins, OutputIndex(private))
      [] c.backend = "ONNX" -> SessionRun(c, ins, OutputIndex(private))
      [] c.backend = "TVM" -> TVMPredictCommon(c, ins, OutputIndex(private))

\* -------------------------------------------------- the TorchScript wrapper
\* astype("float32"): single precision keeps fewer digits.
Float32(v) == v - (v % 2)

\* One input of _torchscript_wrapper: an ndarray becomes a tensor (float64
\* cast to float32 first), a tensor is kept.
TorchscriptInput(x) ==
    IF x.type = "ndarray"
    THEN IF x.dtype = "float64"
         THEN [type |-> "Tensor", dtype |-> "float32",
               cols |-> [col \in 1..Len(x.cols) |->
                            [r \in 1..Len(x.cols[col]) |-> Float32(x.cols[col][r])]]]
         ELSE [x EXCEPT !.type = "Tensor"]
    ELSE x

\* _torchscript_wrapper up to the call of the wrapped function: every input
\* is converted; an input that is neither ndarray nor tensor is refused.
TorchscriptWrapper(xs) ==
    IF \E j \in 1..Len(xs) : xs[j].type \notin {"ndarray", "Tensor"}
    THEN Raise("RuntimeError", <<>>)
    ELSE Ok([j \in 1..Len(xs) |-> TorchscriptInput(xs[j])], <<>>)

\* f_wrapped of the TorchScript containers: lambda x (one positional
\* argument) or, for predict_proba, lambda *x, around a private method.
TorchScriptWrapped(c, private, xs, star) ==
    IF ~star /\ Len(xs) # 1
    THEN Raise("TypeError", <<>>)
    ELSE LET t == TorchscriptWrapper(xs)
         IN  IF t.status # "ok" THEN t ELSE BackendCompute(c, private, t.value)

\* ------------------------------------------------------- anomaly detection
AddScalar(scores, s) == [r \in 1..Len(scores) |-> scores[r] + s]

\* scores += extra_config[IFOREST_THRESHOLD] when it is configured
AddThreshold(c, s) ==
    IF s.status # "ok" THEN s
    ELSE IF c.extra_config.IFOREST_THRESHOLD # None
         THEN Ok(AddScalar(s.value, c.extra_config.IFOREST_THRESHOLD[1]), s.log)
         ELSE s

\* Mutant of AddOffset: the offset is added twice.
AddOffset_twice(c, s) ==
    IF s.status # "ok" THEN s
    ELSE Ok(AddScalar(s.value, 2 * c.extra_config.OFFSET), s.log)

\* ... + self._extra_config[constants.OFFSET]
AddOffset(c, s) ==
    IF s.status # "ok" THEN s
    ELSE Ok(AddScalar(s.value, c.extra_config.OFFSET), s.log)

\* SklearnContainerAnomalyDetection.decision_function
DecisionFunction(c, ins) ==
    AddThreshold(c, BackendCompute(c, "_decision_function", RunInputs(ins)))

\* SklearnContainerAnomalyDetection.score_samples
ScoreSamples(c, ins) == AddOffset(c, DecisionFunction(c, ins))

\* TorchScriptSklearnContainerAnomalyDetection.decision_function
TorchScriptDecisionFunction(c, ins) ==
    AddThreshold(c, TorchScriptWrapped(c, "_decision_function", RunInputs(ins), FALSE))

\* TorchScriptSklearnContainerAnomalyDetection.score_samples: the wrapped
\* function is the public decision_function, which wraps again.
TorchScriptScoreSamples(c, ins) ==
    LET xs == RunInputs(ins)
    IN  IF Len(xs) # 1
        THEN Raise("TypeError", <<>>)
        ELSE LET t == TorchscriptWrapper(xs)
             IN  IF t.status # "ok" THEN t
                 ELSE AddOffset(c, TorchScriptDecisionFunction(c, t.value))

\* --------------------------------------------------------- public methods
\* transform / predict / predict_proba: self._run(self._<method>, *inputs),
\* overridden by the TorchScript classes to wrap the private method.
RunPrivate(c, method, ins) ==
    LET private == CASE method = "transform" -> "_transform"
                     [] method = "predict" -> "_predict"
                     [] method = "predict_proba" -> "_predict_proba"
    IN  IF c.backend = "TorchScript"
        THEN TorchScriptWrapped(c, private, RunInputs(ins), method = "predict_proba")
        ELSE BackendCompute(c, private, RunInputs(ins))

\* container.<method>(*ins): the attribute lookup fails when the class of
\* the container does not define the method.
MethodCall(c, method, ins) ==
    IF method \notin StyleMethods(c.style)
    THEN Raise("AttributeError", <<>>)
    ELSE CASE method = "decision_function" ->
                IF c.backend = "TorchScript"
                THEN TorchScriptDecisionFunction(c, ins) ELSE DecisionFunction(c, ins)
           [] method = "score_samples" ->
                IF c.backend = "TorchScript"
                THEN TorchScriptScoreSamples(c, ins) ELSE ScoreSamples(c, ins)
           [] OTHER -> RunPrivate(c, method, ins)

Thresholds == {None, Some(10)}
Offset == 5
BatchSizes == {None, Some(MaxRows)}

NoPrediction == [method |-> "", args |-> <<>>, status |-> "", err |-> "", value |-> <<>>]

PredictIdle ==
    /\ self = SklearnContainer("PyTorch", "Transformer", None, 1, None, Offset)
    /\ backend_log = <<>>
    /\ returned = NoPrediction

PredictInit ==
    /\ self \in {SklearnContainer(b, s, bs, k, t, Offset) :
                    b \in Backends, s \in Styles, bs \in BatchSizes,
                    k \in 1..MaxCols, t \in Thresholds}
    /\ backend_log = <<>>
    /\ returned = NoPrediction

\* One call of a public prediction method on the container. A prediction
\* call leaves the container as it was, so every call starts from the state
\* after construction: one call is made per behaviour.
Call(method, args) ==
    /\ returned = NoPrediction
    /\ LET o == MethodCall(self, method, args)
       IN  /\ returned' = [method |-> method, args |-> args,
                           status |-> o.status, err |-> o.err, value |-> o.value]
           /\ backend_log' = o.log
    /\ UNCHANGED <<self, batchVars, persistVars>>

CallTransform(args) == Call("transform", args)
CallPredict(args) == Call("predict", args)
CallPredictProba(args) == Call("predict_proba", args)
CallDecisionFunction(args) == Call("decision_function", args)
CallScoreSamples(args) == Call("score_samples", args)

PredictNext ==
    \/ \E args \in InputArgs : CallTransform(args)
    \/ \E args \in InputArgs : CallPredict(args)
    \/ \E args \in InputArgs : CallPredictProba(args)
    \/ \E args \in InputArgs : CallDecisionFunction(args)
    \/ \E args \in InputArgs : CallScoreSamples(args)

\* ------------------------------------------------------- specifications
InitBatch == BatchInit /\ PersistIdle /\ PredictIdle
InitPersist == PersistInit /\ BatchIdle /\ PredictIdle
InitPredict == PredictInit /\ BatchIdle /\ PersistIdle
SpecBatch == InitBatch /\ [][BatchNext]_vars
SpecPersist == InitPersist /\ [][PersistNext]_vars
SpecPredict == InitPredict /\ [][PredictNext]_vars

\* ========================================================================
\*                      PROPERTIES OF THE BATCH SPLITTER
\* ========================================================================
N == Len(inputs[1])                 \* total row count of the call
B == bc.batch_size                  \* base batch size
R == bc.remainder_size              \* remainder size
Called == pc \in {"loop", "done", "failed"}
CeilDiv(n, b) == (n + b - 1) \div b

\* The unsplit computation: the base container's method on all N rows at once.
Unsplit == ContainerCompute(bc.base_container, func, inputs)

\* R is the remainder of N by B, or B when B divides N.
ProperRemainder == N >= 1 /\ R = (IF N % B # 0 THEN N % B ELSE B)

\* The remainder container computes what the base container computes.
ComputeAgrees == bc.remainder_model_container.model = bc.base_container.model

RoutedRows ==
    [j \in 1..N |->
        RowOutput(IF N # B /\ j > (CeilDiv(N, B) - 1) * B
                  THEN bc.remainder_model_container.model
                  ELSE bc.base_container.model,
                  func, inputs[1][j])]

LastChunkRows == SubSeq(inputs[1], (iterations - 1) * B + 1, N)

\* C3: when N # B the call makes max(1, ceil(N/B)) iterations, the last chunk
\* is never given to the base container, only to the remainder container, and
\* only when it has exactly R rows; when it has not, the call fails without
\* invoking the remainder compute function and returns nothing.
C3_LastChunkToRemainderOrFail ==
    (Called /\ N # B)
        => /\ iterations = Max(1, CeilDiv(N, B))
           /\ \A k \in DOMAIN calls :
                 /\ calls[k].container = "base" => calls[k].iter < iterations - 1
                 /\ calls[k].container = "remainder"
                        => /\ calls[k].iter = iterations - 1
                           /\ calls[k].rows = LastChunkRows
                           /\ Len(calls[k].rows) = R
           /\ Len(LastChunkRows) # R
                 => /\ pc # "done"
                    /\ i <= iterations - 1
                    /\ \A k \in DOMAIN calls : calls[k].container # "remainder"
                    /\ result = <<>>
           /\ pc = "failed" => Len(LastChunkRows) # R /\ i = iterations - 1 /\ result = <<>>
           /\ pc = "done" => /\ Len(calls) = iterations
                             /\ calls[Len(calls)].container = "remainder"

\* C3 witness: a call that failed on its last chunk after the base container
\* computed earlier chunks.
C3_Witness ==
    /\ pc = "failed" /\ N # B /\ Len(calls) >= 2
    /\ Len(LastChunkRows) # R

\* N = k * B with k >= 2, a distinct remainder container of nonzero size, and
\* the call has ended.
C4_Case ==
    /\ pc \in {"done", "failed"}
    /\ bc.distinct_remainder /\ R # 0
    /\ N % B = 0 /\ N \div B >= 2

\* The first k-1 chunks were computed by the base container, in order.
C4_BaseChunks ==
    \A k \in 1..((N \div B) - 1) :
        /\ k \in DOMAIN calls
        /\ calls[k] = [container |-> "base", iter |-> k - 1,
                       rows |-> SubSeq(inputs[1], (k - 1) * B + 1, k * B)]

\* C4 as stated: for N = k*B, k >= 2 and a distinct remainder container with
\* nonzero R, the call computes k-1 chunks on the base container and the
\* remainder container's compute function receives the final B-row chunk.
C4_Original_RemainderComputesFinalChunk ==
    C4_Case
        => /\ iterations = N \div B
           /\ C4_BaseChunks
           /\ Len(calls) = N \div B
           /\ calls[Len(calls)].container = "remainder"
           /\ Len(calls[Len(calls)].rows) = B

\* C4 amended: the final B-row chunk takes the remainder branch; the remainder
\* container computes it only when R = B, and when R # B the call fails its
\* size assertion after the k-1 base chunks, the remainder container is not
\* invoked and nothing is returned.
C4_FinalChunkTakesRemainderBranch ==
    C4_Case
        => /\ iterations = N \div B
           /\ C4_BaseChunks
           /\ \A k \in DOMAIN calls : calls[k].container = "base" => calls[k].iter < iterations - 1
           /\ R = B => /\ pc = "done"
                       /\ Len(calls) = N \div B
                       /\ calls[Len(calls)] = [container |-> "remainder", iter |-> iterations - 1,
                                               rows |-> SubSeq(inputs[1], N - B + 1, N)]
           /\ R # B => /\ pc = "failed"
                       /\ Len(calls) = (N \div B) - 1
                       /\ result = <<>>

\* C4 witness: N = k*B, k >= 2, with a distinct remainder container of size B
\* whose compute function took the final chunk.
C4_Witness ==
    /\ C4_Case /\ pc = "done" /\ R = B
    /\ calls[Len(calls)].container = "remainder"
    /\ bc.remainder_model_container.model # bc.base_container.model

\* C5: when N = B the call invokes the base container's compute function once,
\* on all N rows, never the remainder container's, whatever R is, and returns
\* that output as a one-element result.
C5_SingleBatch ==
    (Called /\ N = B)
        => /\ pc = "done"
           /\ calls = << [container |-> "base", iter |-> 0, rows |-> inputs[1]] >>
           /\ predictions = << Unsplit >>
           /\ result = (IF concatenate_outputs THEN Unsplit ELSE << Unsplit >>)

\* C5 witness: a single batch call through a splitter whose remainder
\* container has another size than the input.
C5_Witness ==
    /\ pc = "done" /\ N = B /\ bc.distinct_remainder /\ R # B /\ R # 0
    /\ Len(calls) = 1

\* ========================================================================
\*                        PROPERTIES OF SAVE AND LOAD
\* ========================================================================

\* The step is a call of save / of load.
SaveStep == ncalls' = ncalls + 1 /\ ret'.op = "save"
SaveSucceeds == SaveStep /\ ret'.status = "ok"

\* C6: a save whose target location already exists, or whose container has no
\* model handle, raises and leaves the file system exactly as it was.
C6_RejectedSaveWritesNothing ==
    [][ (SaveStep /\ (fs[ret'.loc].kind # "absent" \/ container.model.kind = "None"))
            => (ret'.status = "raise" /\ fs' = fs) ]_vars

\* C6 witness: a save was refused because its target existed, and another state
\* of the file system than the initial one was left untouched.
C6_Witness ==
    /\ ret.op = "save" /\ ret.status = "raise" /\ ret.err = "AssertionError: exists"
    /\ fs[ret.loc].kind = "dir"

\* C7: once save(L) has produced the archive L.zip, a later save(L) fails and
\* leaves L.zip as it was.
C7_SaveNeverOverwritesArchive ==
    [][ (SaveStep /\ fs[ArchiveOf(ret'.loc)].kind = "file")
            => (ret'.status = "raise" /\ fs'[ArchiveOf(ret'.loc)] = fs[ArchiveOf(ret'.loc)]) ]_vars

\* C8: a successful save leaves the in-memory container (model handle,
\* session / context, every extra_config entry) as it was before the call.
C8_SaveLeavesContainerUnchanged ==
    [][ SaveSucceeds => container' = container ]_vars

\* The directory a load call reads the bundle from.
ReadDirectory(r) == IF r.flag THEN UnpackTarget(r.loc) ELSE r.loc

\* The last call was a load that got as far as a bundle with a type tag: its
\* archive, when it unpacks one, was there, and the directory read holds a tag.
C9_BundleReached ==
    /\ ret.op = "load"
    /\ ret.flag => fs[ZipLocation(ret.loc)].kind = "file"
    /\ FileReadable(fs, ReadDirectory(ret), "SAVE_LOAD_MODEL_TYPE_PATH")

BundleTag == ReadFile(fs, ReadDirectory(ret), "SAVE_LOAD_MODEL_TYPE_PATH")[2]

\* The tags each backend-specific loader expects.
ExpectedTags(cls) ==
    IF cls = "ONNX" THEN {"onnx"} ELSE IF cls = "TVM" THEN {"tvm"} ELSE {"torch", "torch.jit"}

RaisedTagMismatch == ret.status = "raise" /\ ret.err = "model type mismatch" /\ ret.value = None

\* C9 as stated: for every loader and both values of the flag, loading a bundle
\* whose tag the loader does not expect raises because of the tag mismatch and
\* returns no container.
C9_Original_MismatchRaisesForBothFlags ==
    (C9_BundleReached /\ BundleTag \notin ExpectedTags(ret.cls)) => RaisedTagMismatch

\* C9 amended: the PyTorch loader with either flag value, and the ONNX and TVM
\* loaders with the flag set, raise because of the tag mismatch and return no
\* container; with the flag unset the ONNX and TVM loaders do not read the tag
\* and never raise a tag mismatch.
C9_MismatchRaisesWhenTagIsChecked ==
    /\ (C9_BundleReached /\ BundleTag \notin ExpectedTags(ret.cls)
            /\ (ret.flag \/ ret.cls = "PyTorch"))
         => RaisedTagMismatch
    /\ (ret.op = "load" /\ ~ret.flag /\ ret.cls \in {"ONNX", "TVM"})
         => ret.err # "model type mismatch"

\* C9 witness: the ONNX loader, unpacking, refused a bundle tagged "tvm".
C9_Witness ==
    /\ C9_BundleReached /\ ret.cls = "ONNX" /\ ret.flag /\ BundleTag = "tvm"
    /\ RaisedTagMismatch

\* What a prediction method of container c returns on input x: the output is
\* determined by the model's weights; a TVM container needs a device context
\* to build its input arrays (tvm.nd.array(x, self._ctx)).
PredictOutput(c, x) ==
    IF c.model.kind = "None" THEN <<"AttributeError">>
    ELSE IF c.cls = "TVM" /\ (c.ctx \notin TvmDevices \/ c.model.ctx \notin TvmDevices)
    THEN <<"TVMError">>
    ELSE <<"output", c.model.id, x>>

\* The loader of a container's own backend, run on a file system.
OwnLoad(cls, fsys, thr, location, runtime_accepts) ==
    IF cls = "PyTorch" THEN PyTorchLoad(fsys, thr, location, TRUE)
    ELSE IF cls = "ONNX" THEN ONNXLoad(fsys, thr, location, TRUE)
    ELSE TVMLoad(fsys, thr, location, TRUE, runtime_accepts)

\* Container loaded is container c as it was saved: same thread count hint,
\* batch size and non-native configuration, a model handle rebuilt from c's
\* payload, and the same outputs.
SameAsSaved(loaded, c) ==
    /\ loaded.cls = c.cls
    /\ loaded.n_threads = c.n_threads
    /\ loaded.batch_size = c.batch_size
    /\ loaded.extra_config.OFFSET = c.extra_config.OFFSET
    /\ loaded.model.kind = c.model.kind
    /\ loaded.model.id = c.model.id
    /\ \A x \in 1..2 : PredictOutput(loaded, x) = PredictOutput(c, x)

\* C10: load(L) right after a successful save(L) of container c returns a
\* container that is c as it was saved, on every backend.
C10_SaveLoadRoundTrip ==
    [][ SaveSucceeds
            => \A acc \in BOOLEAN :
                  LET o == OwnLoad(container.cls, fs', threading', ret'.loc, acc)
                  IN  /\ o.status = "ok"
                      /\ o.value # None
                      /\ SameAsSaved(o.value[1], container) ]_vars

\* ========================================================================
\*                  PROPERTIES OF THE PREDICTION METHODS
\* ========================================================================
Threshold == self.extra_config.IFOREST_THRESHOLD
ThresholdOrZero == IF Threshold = None THEN 0 ELSE Threshold[1]

\* C11: on an anomaly detection container of any backend (the TorchScript
\* one included), whenever decision_function accepts the input x,
\* score_samples(x) succeeds and is decision_function(x) plus the stored
\* offset, row by row: the backend's scores plus the threshold (once, when
\* one is configured) plus the offset (once).
C11_ScoreSamplesIsDecisionFunctionPlusOffset ==
    (returned.method = "score_samples" /\ self.style = "AnomalyDetection") =>
        LET d == MethodCall(self, "decision_function", returned.args)
        IN  d.status = "ok" =>
              /\ returned.status = "ok"
              /\ Len(returned.value) = Len(d.value)
              /\ \A r \in 1..Len(d.value) :
                    returned.value[r] = d.value[r] + self.extra_config.OFFSET
              /\ backend_log # <<>>
              /\ LET scores == ModelOutput(1, backend_log[1].args)
                 IN  \A r \in 1..Len(d.value) :
                        returned.value[r] =
                            scores[r] + ThresholdOrZero + self.extra_config.OFFSET

\* score_samples returned on a TorchScript anomaly container with a threshold.
C11_Witness ==
    /\ returned.method = "score_samples"
    /\ returned.status = "ok"
    /\ self.style = "AnomalyDetection"
    /\ self.backend = "TorchScript"
    /\ Threshold # None
    /\ returned.args[1].type = "DataFrame"

\* The k columns of a tabular argument as k positional (n, 1) arrays.
SplitColumns(df) == [j \in 1..Len(df.cols) |-> ColumnArray(j, Len(df.cols[1]))]

\* The last call was a declared method given one DataFrame that the backend
\* model can take: as many columns as the model has inputs and, on TVM, as
\* many rows as the batch size.
TabularCall ==
    /\ returned.method \in StyleMethods(self.style)
    /\ returned.args[1].type = "DataFrame"
    /\ Len(returned.args[1].cols) = self.n_inputs
    /\ self.backend = "TVM" => self.batch_size = Some(Len(returned.args[1].cols[1]))

\* C12: on every backend and for every declared method, a call with one
\* k-column DataFrame and the call with the k column arrays as positional
\* arguments are both accepted, hand the same k arrays in column order to the
\* backend primitive and return the same output, for every k >= 1.
C12_TabularEqualsColumnArrays ==
    TabularCall =>
        LET alt == MethodCall(self, returned.method, SplitColumns(returned.args[1]))
        IN  /\ returned.status = "ok"
            /\ alt.status = "ok"
            /\ alt.value = returned.value
            /\ alt.log = backend_log
            /\ backend_log # <<>>
            /\ Len(backend_log[1].args) = Len(returned.args[1].cols)

\* The same statement outside the TorchScript containers, where it holds.
C12_HoldsOutsideTorchScript == self.backend # "TorchScript" => C12_TabularEqualsColumnArrays

\* ========================================================================
\*            PROPERTIES OF THE STYLES AND OF THE CHUNK SEQUENCE
\* ========================================================================
\* The prediction methods a style is declared to have.
DeclaredMethods(style) ==
    IF style = "Transformer" THEN {"transform"}
    ELSE IF style = "Regression" THEN {"predict"}
    ELSE IF style = "Classification" THEN {"predict", "predict_proba"}
    ELSE {"predict", "decision_function", "score_samples"}

BaseDeclares == func \in DeclaredMethods(bc.base_container.style)
RemainderDeclares == func \in DeclaredMethods(bc.remainder_model_container.style)

\* C13: a container has exactly the prediction methods of its style. A
\* direct call fails exactly when the style does not declare the method, and
\* then nothing is computed; a call through a BatchContainer fails with the
\* attribute error exactly when the base or the remainder container lacks
\* the method, and then no chunk has been computed.
C13_OnlyDeclaredMethodsCompute ==
    /\ pc \in {"direct_done", "direct_error"} =>
          /\ (pc = "direct_error") <=> ~BaseDeclares
          /\ pc = "direct_error" => (calls = <<>> /\ result = <<>>)
          /\ pc = "direct_done" => Len(calls) = 1
    /\ pc \in {"loop", "done", "failed", "attribute_error"} =>
          /\ (pc = "attribute_error") <=> ~(BaseDeclares /\ RemainderDeclares)
          /\ pc = "attribute_error" => (calls = <<>> /\ predictions = <<>> /\ result = <<>>)

\* A batch call of a method the base container has and the remainder
\* container lacks has failed.
C13_Witness ==
    /\ pc = "attribute_error"
    /\ bc.distinct_remainder
    /\ BaseDeclares
    /\ ~RemainderDeclares
    /\ Len(inputs[1]) > bc.batch_size

\* The arrays the last call handed to the container's private method.
Delivered == RunInputs(returned.args)

\* The last call was a declared method of a TVM container and some input
\* array has a row count other than the container's batch size.
TvmRowMismatch ==
    /\ self.backend = "TVM"
    /\ returned.method \in DeclaredMethods(self.style)
    /\ \E j \in 1..Len(Delivered) : Some(Len(Delivered[j].cols[1])) # self.batch_size

\* C14 as stated: a TVM call in which some input's row count differs from
\* the batch size (None included) fails with an assertion failure, and
\* model.run is not invoked and no output slot is read.
C14_Original_MismatchRaisesAssertion ==
    TvmRowMismatch =>
        /\ returned.status = "error"
        /\ returned.err = "AssertionError"
        /\ backend_log = <<>>

\* C14, amended: such a call always fails before model.run is invoked and
\* before any output slot is read; the failure is the assertion failure
\* whenever no more inputs are passed than the model has input names (a
\* surplus input that comes before the first mismatching one raises
\* IndexError instead).
C14_MismatchFailsBeforeModelRun ==
    TvmRowMismatch =>
        /\ returned.status = "error"
        /\ backend_log = <<>>
        /\ returned.err \in {"AssertionError", "IndexError"}
        /\ Len(Delivered) <= self.n_inputs => returned.err = "AssertionError"

\* A TVM call whose first input has the batch size and whose second has not.
C14_Witness ==
    /\ TvmRowMismatch
    /\ self.batch_size # None
    /\ Len(Delivered) = 2
    /\ self.n_inputs >= 2
    /\ Some(Len(Delivered[1].cols[1])) = self.batch_size
    /\ returned.err = "AssertionError"

\* Rows [k*B, min((k+1)*B, N)) of the input, k counted from 0, as row
\* positions 1..N.
ChunkPositions(k) == {j \in 1..N : k * B < j /\ j <= Min((k + 1) * B, N)}
ChunkRows(k) == [j \in 1..Cardinality(ChunkPositions(k)) |-> inputs[1][k * B + j]]

\* The container that computed the k-th recorded chunk.
ChunkContainer(k) ==
    IF calls[k].container = "remainder" THEN bc.remainder_model_container ELSE bc.base_container

\* C15: in a multi-chunk call, iteration i works on exactly the rows
\* [i*B, min((i+1)*B, N)); these chunks are pairwise disjoint and cover the
\* rows [0, N) exactly once; the chunks are computed in increasing i and the
\* result of each is in the result sequence before the next is computed.
C15_ChunksInOrderCoverRowsOnce ==
    (Called /\ N # B) =>
        /\ \A k \in DOMAIN calls :
              /\ calls[k].iter = k - 1
              /\ calls[k].rows = ChunkRows(k - 1)
        /\ Len(predictions) = Len(calls)
        /\ Len(calls) = i
        /\ \A k \in DOMAIN predictions :
              predictions[k] = ContainerCompute(ChunkContainer(k), func, << calls[k].rows >>)
        /\ \A k1, k2 \in 0..(iterations - 1) :
              k1 # k2 => ChunkPositions(k1) \cap ChunkPositions(k2) = {}
        /\ UNION {ChunkPositions(k) : k \in 0..(iterations - 1)} = 1..N
        /\ pc = "done" =>
              /\ Len(calls) = iterations
              /\ Concatenate([k \in DOMAIN calls |-> calls[k].rows]) = inputs[1]

\* A completed call of three or more chunks, the last one shorter.
C15_Witness ==
    /\ pc = "done" /\ N # B /\ N % B # 0
    /\ Len(calls) >= 3
    /\ Len(predictions) = Len(calls)
    /\ calls[3].rows = ChunkRows(2)

\* C16: in every call through the splitter, completed, running or failed,
\* each invocation of the base container's method receives exactly B rows and
\* each invocation of the remainder container's method exactly R rows, so
\* the batch-size assertion of a TVM container compiled for that size holds
\* on every chunk it is given.
C16_ContainersReceiveTheirBatchSize ==
    Called =>
        \A k \in DOMAIN calls :
            /\ calls[k].container \in {"base", "remainder"}
            /\ Len(calls[k].rows) = ChunkContainer(k).batch_size
            /\ calls[k].container = "base" => Len(calls[k].rows) = B
            /\ calls[k].container = "remainder" => Len(calls[k].rows) = R
            /\ TvmBatchSizeOk(Len(calls[k].rows), Some(ChunkContainer(k).batch_size))

\* A call in which the base container took two chunks and a remainder
\* container of another size took the last one.
C16_Witness ==
    /\ pc = "done" /\ bc.distinct_remainder /\ R # B /\ R # 0
    /\ Len(calls) = 3
    /\ calls[2].container = "base"
    /\ calls[3].container = "remainder"

\* ========================================================================
\*            PROPERTIES OF LOAD PATHS, FAILED SAVES AND THREADS
\* ========================================================================
LoadStep == ncalls' = ncalls + 1 /\ ret'.op = "load"

\* The step is a load, with unpacking enabled, of the archive root.zip that
\* a save(root) has written.
LoadsArchiveOf(root) ==
    /\ LoadStep
    /\ ret'.flag
    /\ ret'.loc = root \o <<".", "z", "i", "p">>
    /\ fs[ret'.loc].kind = "file"

\* C17: load('{root}.zip') with unpacking enabled unpacks the archive into
\* the directory '{root}' and into no other directory, reads the bundle from
\* there, and gives what load('{root}') gives.
C17_ArchivePathUnpacksIntoRoot ==
    [][ \A root \in SaveLocations :
          LoadsArchiveOf(root) =>
            /\ fs'[root].kind = "dir"
            /\ \A f \in FileNames :
                  Len(fs[ret'.loc].files[f]) > 0 => fs'[root].files[f] = fs[ret'.loc].files[f]
            /\ \A p \in Paths \ {root} : fs'[p] = fs[p]
            /\ \E acc \in BOOLEAN :
                  LET o == OwnLoad(ret'.cls, fs, threading, root, acc)
                  IN  ret'.status = o.status /\ ret'.value = o.value ]_vars

\* The save of a container's own backend.
OwnSave(c, fsys, location, fault) ==
    IF c.cls = "PyTorch" THEN PyTorchSave(c, fsys, location, fault)
    ELSE IF c.cls = "ONNX" THEN ONNXSave(c, fsys, location, fault)
    ELSE TVMSave(c, fsys, location, fault)

\* The step is a save that raised after it had written to the file system.
SaveFailsAfterWriting == SaveStep /\ ret'.status = "raise" /\ fs' # fs

\* C18: a save that fails after it has started writing leaves the container's
\* model handle and native session / context as they were, so a prediction
\* and a save to a fresh location afterwards behave as if the failed save had
\* not happened.
C18_FailedSaveRestoresContainer ==
    [][ SaveFailsAfterWriting =>
          /\ container'.model = container.model
          /\ container'.session = container.session
          /\ container'.ctx = container.ctx
          /\ container'.extra_config.TVM_LIB = container.extra_config.TVM_LIB
          /\ container'.extra_config.TVM_GRAPH = container.extra_config.TVM_GRAPH
          /\ container'.extra_config.TVM_PARAMS = container.extra_config.TVM_PARAMS
          /\ container'.extra_config.TVM_CONTEXT = container.extra_config.TVM_CONTEXT
          /\ \A x \in 1..2 : PredictOutput(container', x) = PredictOutput(container, x)
          /\ \A fresh \in SaveLocations :
                fs'[fresh].kind = "absent" =>
                    OwnSave(container', fs', fresh, "none").status
                        = OwnSave(container, fs', fresh, "none").status ]_vars

\* No thread count has been written to any backend's configuration.
NoThreadsConfigured ==
    /\ threading.torch_num_threads = None
    /\ threading.torch_interop_threads = None
    /\ threading.TVM_NUM_THREADS = "unset"

\* C19: constructing or loading a container writes a thread count to the
\* backend's threading configuration only when the hint is present: a
\* container loaded with hint n has the backend's thread count at n, and
\* while the only hint around is None (the caller's container, and so every
\* bundle it saved) nothing is written: torch's process-wide thread counts
\* and the TVM_NUM_THREADS environment variable stay unset.
C19_ThreadHintAppliedOnlyWhenPresent ==
    /\ container.n_threads = None => NoThreadsConfigured
    /\ (ret.op = "load" /\ ret.status = "ok" /\ ret.value # None) =>
          LET c == ret.value[1]
          IN  c.n_threads # None =>
                /\ c.cls = "PyTorch" => threading.torch_num_threads = c.n_threads
                /\ c.cls = "TVM" => threading.TVM_NUM_THREADS = "2"

====
